---- MODULE Spec2Model ----
(***************************************************************************)
(* A model of proxmox/prox_usage.py: the Proxmox allocation report.        *)
(*                                                                         *)
(* Text is modelled character by character on TLA+ strings (Len, SubSeq    *)
(* and \o work on strings in TLC), so that the regular expressions, the    *)
(* splitting, the trimming and the integer conversion of the script are    *)
(* computed as the script computes them.  A file is a sequence of lines,   *)
(* each line without its trailing newline.                                 *)
(***************************************************************************)
EXTENDS Integers, Sequences, FiniteSets, TLC

VARIABLES
    args,            \* sys.argv[1:]
    vm_dir,          \* what os.listdir("/etc/pve/qemu-server") returned, in its order
    lxc_dir,         \* what os.listdir("/etc/pve/lxc") returned, in its order
    host,            \* what get_pve_status found: /proc readable, the answer of top
    pc,              \* position in main()
    outfile,         \* main: outfile
    host_cpu_cores,  \* main: host_cpu_cores
    i,               \* index of the next config path in the running parser loop
    vm_rows, total_vm_mem, total_vm_disk, total_vm_vcpus,
    lxc_data, total_lxc_mem, total_lxc_disk, total_lxc_cores,
    sys_stdout,      \* what sys.stdout is bound to: "console" or "file"
    out_file,        \* the file at the path outfile: [exists, open, lines]
    console,         \* the lines written to the process's standard output
    exit_code,       \* the process's exit status, -1 while running
    error,           \* the exception that ended the run, "" if none
    call_args,       \* arguments of a direct call of extract_value
    ret              \* its return value

vars == <<args, vm_dir, lxc_dir, host, pc, outfile, host_cpu_cores, i,
          vm_rows, total_vm_mem, total_vm_disk, total_vm_vcpus,
          lxc_data, total_lxc_mem, total_lxc_disk, total_lxc_cores,
          sys_stdout, out_file, console, exit_code, error, call_args, ret>>

----------------------------------------------------------------------------
(* Bounds of the model. *)

\* longest argument list
MaxArgs == 3
\* most config files in the two guest directories together
MaxGuests == 2
\* most lines of a file handed to extract_value directly
MaxLines == 2
\* largest per-kind CPU total handed to print_output directly
MaxCpu == 3
\* largest host core count
MaxHostCores == 4
\* largest n of the generated size=nG / size=(1024n)M disk lines
MaxSizeGB == 2

----------------------------------------------------------------------------
(* Strings. *)

\* s[a-1:b] of Python: the characters a..b that exist
Slice(s, a, b) ==
    IF a > Len(s) \/ b < a THEN ""
    ELSE SubSeq(s, a, IF b > Len(s) THEN Len(s) ELSE b)

Char(s, k) == Slice(s, k, k)

StartsWith(s, p) == Len(s) >= Len(p) /\ Slice(s, 1, Len(p)) = p

EndsWith(s, p) == Len(s) >= Len(p) /\ Slice(s, Len(s) - Len(p) + 1, Len(s)) = p

UpperLetters == "ABCDEFGHIJKLMNOPQRSTUVWXYZ"

LowerLetters == "abcdefghijklmnopqrstuvwxyz"

UpperSet == {Char(UpperLetters, k) : k \in 1..Len(UpperLetters)}

LowerChar(c) ==
    IF c \in UpperSet
    THEN Char(LowerLetters, CHOOSE k \in 1..Len(UpperLetters) : Char(UpperLetters, k) = c)
    ELSE c

RECURSIVE LowerStr(_)
LowerStr(s) == IF s = "" THEN "" ELSE LowerChar(Char(s, 1)) \o LowerStr(Tail(s))

\* \s of the regular expressions, and what str.strip() removes
IsSpace(c) == c \in {" ", "\t", "\n", "\r"}

Digits == "0123456789"

DigitSet == {Char(Digits, d) : d \in 1..Len(Digits)}

IsDigit(c) == c \in DigitSet

DigitVal(c) == (CHOOSE d \in 1..Len(Digits) : Char(Digits, d) = c) - 1

RECURSIVE LStrip(_)
LStrip(s) == IF s # "" /\ IsSpace(Char(s, 1)) THEN LStrip(Tail(s)) ELSE s

RECURSIVE RStrip(_)
RStrip(s) ==
    IF s # "" /\ IsSpace(Char(s, Len(s))) THEN RStrip(Slice(s, 1, Len(s) - 1)) ELSE s

Strip(s) == RStrip(LStrip(s))

\* least k >= from with Char(s, k) in the set cs, 0 if none
RECURSIVE FindChar(_, _, _)
FindChar(s, cs, from) ==
    IF from > Len(s) THEN 0
    ELSE IF Char(s, from) \in cs THEN from
    ELSE FindChar(s, cs, from + 1)

\* str.split(sep)[0] for a one-character sep
SplitFirst(s, sep) ==
    LET k == FindChar(s, {sep}, 1) IN IF k = 0 THEN s ELSE Slice(s, 1, k - 1)

\* str.replace(old, new): every non-overlapping occurrence, left to right
RECURSIVE StrReplace(_, _, _)
StrReplace(s, old, new) ==
    IF s = "" THEN ""
    ELSE IF StartsWith(s, old)
         THEN new \o StrReplace(Slice(s, Len(old) + 1, Len(s)), old, new)
         ELSE Char(s, 1) \o StrReplace(Tail(s), old, new)

\* least k >= from whose character is no digit (Len(s) + 1 if none)
RECURSIVE SkipDigits(_, _)
SkipDigits(s, from) ==
    IF from <= Len(s) /\ IsDigit(Char(s, from)) THEN SkipDigits(s, from + 1) ELSE from

\* \s* : least k >= from whose character is no white space
RECURSIVE SkipSpaces(_, _)
SkipSpaces(s, from) ==
    IF from <= Len(s) /\ IsSpace(Char(s, from)) THEN SkipSpaces(s, from + 1) ELSE from

\* [^\s,]+ : least k >= from whose character is white space or a comma
RECURSIVE SkipToken(_, _)
SkipToken(s, from) ==
    IF from <= Len(s) /\ ~IsSpace(Char(s, from)) /\ Char(s, from) # ","
    THEN SkipToken(s, from + 1) ELSE from

\* the decimal digits of a natural number
RECURSIVE NatToStr(_)
NatToStr(n) ==
    IF n < 10 THEN Char(Digits, n + 1)
    ELSE NatToStr(n \div 10) \o Char(Digits, (n % 10) + 1)

----------------------------------------------------------------------------
(* int(s): optional white space, an optional sign, digits that may be      *)
(* separated by single underscores.  Anything else raises ValueError.      *)

IntBody(s) ==
    LET t == Strip(s) IN
    IF t # "" /\ Char(t, 1) \in {"+", "-"} THEN Tail(t) ELSE t

IsInt(s) ==
    LET b == IntBody(s) IN
    /\ b # ""
    /\ IsDigit(Char(b, 1))
    /\ IsDigit(Char(b, Len(b)))
    /\ \A k \in 1..Len(b) : IsDigit(Char(b, k)) \/ Char(b, k) = "_"
    /\ \A k \in 1..(Len(b) - 1) : ~(Char(b, k) = "_" /\ Char(b, k + 1) = "_")

RECURSIVE DigitsValue(_, _)
DigitsValue(b, acc) ==
    IF b = "" THEN acc
    ELSE IF Char(b, 1) = "_" THEN DigitsValue(Tail(b), acc)
    ELSE DigitsValue(Tail(b), 10 * acc + DigitVal(Char(b, 1)))

int(s) ==
    LET t == Strip(s)
        v == DigitsValue(IntBody(s), 0)
    IN  IF t # "" /\ Char(t, 1) = "-" THEN 0 - v ELSE v

----------------------------------------------------------------------------
(* Helpers of the script. *)

\* re.match(pattern, line, re.IGNORECASE) for the patterns the script uses,
\* "^" followed by a literal word
re_match_ignorecase(pattern, line) ==
    LET word == Tail(pattern) IN
    Len(line) >= Len(word) /\ LowerStr(Slice(line, 1, Len(word))) = LowerStr(word)

\* re.split(r"[=:]", line, maxsplit=1)
re_split(line) ==
    LET k == FindChar(line, {"=", ":"}, 1) IN
    IF k = 0 THEN <<line>>
    ELSE <<Slice(line, 1, k - 1), Slice(line, k + 1, Len(line))>>

\* extract_value as it would be if the first matching line decided the result
RECURSIVE extract_value_first_match(_, _)
extract_value_first_match(lines, pattern) ==
    IF lines = <<>> THEN ""
    ELSE LET parts == re_split(Head(lines)) IN
         IF re_match_ignorecase(pattern, Head(lines))
         THEN (IF Len(parts) = 2 THEN Strip(parts[2]) ELSE "")
         ELSE extract_value_first_match(Tail(lines), pattern)

RECURSIVE extract_value(_, _)
extract_value(lines, pattern) ==
    IF lines = <<>> THEN ""
    ELSE LET parts == re_split(Head(lines)) IN
         IF re_match_ignorecase(pattern, Head(lines)) /\ Len(parts) = 2
         THEN Strip(parts[2])
         ELSE extract_value(Tail(lines), pattern)

RECURSIVE extract_line(_, _)
extract_line(lines, pattern) ==
    IF lines = <<>> THEN ""
    ELSE IF re_match_ignorecase(pattern, Head(lines))
         THEN Strip(Head(lines))
         ELSE extract_line(Tail(lines), pattern)

\* glob_files(directory, extension) over a directory listing of file records
RECURSIVE glob_files(_, _, _)
glob_files(directory, listing, extension) ==
    IF listing = <<>> THEN <<>>
    ELSE IF EndsWith(Head(listing).name, extension)
         THEN <<[Head(listing) EXCEPT !.name = directory \o "/" \o @]>>
              \o glob_files(directory, Tail(listing), extension)
         ELSE glob_files(directory, Tail(listing), extension)

\* os.path.basename(path): what follows the last "/"
RECURSIVE basename(_)
basename(path) ==
    LET k == FindChar(path, {"/"}, 1) IN
    IF k = 0 THEN path ELSE basename(Slice(path, k + 1, Len(path)))

\* vmid of parse_vm_configs and parse_lxc_configs
guest_id(cfg_path) == StrReplace(basename(cfg_path), ".conf", "")

\* `value or fallback` on strings
OrElse(value, fallback) == IF value = "" THEN fallback ELSE value

----------------------------------------------------------------------------
(* Disk lines. *)

BusNames == {"scsi", "sata", "virtio", "efidisk"}

\* group(2) of re.match(r"^(scsi|sata|virtio|efidisk)\d+:\s*([^\s,]+)", line),
\* "" when the line does not match (group 2 is never empty in a match)
disk_match(line) ==
    IF \E b \in BusNames : StartsWith(line, b)
    THEN LET b  == CHOOSE b \in BusNames : StartsWith(line, b)
             d0 == Len(b) + 1
             d1 == SkipDigits(line, d0)
             w  == SkipSpaces(line, d1 + 1)
             e  == SkipToken(line, w)
         IN  IF d1 > d0 /\ Char(line, d1) = ":" /\ e > w
             THEN Slice(line, w, e - 1) ELSE ""
    ELSE ""

\* group(1) of re.match(r"^rootfs:\s*([^\s,]+)", rootfs_line), "" when no match
rootfs_match(line) ==
    IF StartsWith(line, "rootfs:")
    THEN LET w == SkipSpaces(line, Len("rootfs:") + 1)
             e == SkipToken(line, w)
         IN  IF e > w THEN Slice(line, w, e - 1) ELSE ""
    ELSE ""

\* disk_match.group(2).split(":")[0].split(",")[0]
storage_location(group) == SplitFirst(SplitFirst(group, ":"), ",")

\* re.search(r",size=([\d]+)([GM])", line) tried at position p and after:
\* <<size_val, unit>> of the leftmost match, <<>> when there is none
RECURSIVE size_search(_, _)
size_search(line, p) ==
    IF p > Len(line) THEN <<>>
    ELSE LET d0 == p + Len(",size=")
             d1 == SkipDigits(line, d0)
         IN  IF /\ Slice(line, p, d0 - 1) = ",size="
                /\ d1 > d0
                /\ Char(line, d1) \in {"G", "M"}
             THEN <<int(Slice(line, d0, d1 - 1)), Char(line, d1)>>
             ELSE size_search(line, p + 1)

\* size_gb as it would be if a size in megabytes were added undivided
size_gb_unscaled(size_match) ==
    IF size_match = <<>> THEN 0 ELSE size_match[1]

\* what one size match adds: size_val for G, size_val // 1024 for M
size_gb(size_match) ==
    IF size_match = <<>> THEN 0
    ELSE IF size_match[2] = "G" THEN size_match[1]
    ELSE size_match[1] \div 1024

\* the loop of parse_vm_configs over the lines of one file: disk_size_sum
RECURSIVE disk_size_sum(_)
disk_size_sum(lines) ==
    IF lines = <<>> THEN 0
    ELSE (IF disk_match(Head(lines)) # ""
          THEN size_gb(size_search(Head(lines), 1)) ELSE 0)
         + disk_size_sum(Tail(lines))

\* the same loop: disk_locations
RECURSIVE disk_locations(_)
disk_locations(lines) ==
    IF lines = <<>> THEN <<>>
    ELSE (IF disk_match(Head(lines)) # ""
          THEN <<storage_location(disk_match(Head(lines)))>> ELSE <<>>)
         \o disk_locations(Tail(lines))

\* ", ".join(disk_locations) if disk_locations else "-"
RECURSIVE join(_)
join(locs) ==
    IF locs = <<>> THEN ""
    ELSE IF Len(locs) = 1 THEN locs[1]
    ELSE locs[1] \o ", " \o join(Tail(locs))

disk_locations_str(lines) ==
    IF disk_locations(lines) = <<>> THEN "-" ELSE join(disk_locations(lines))

\* disk_gb of parse_lxc_configs, from the first rootfs line
lxc_disk_gb(lines) ==
    LET rootfs_line == extract_line(lines, "^rootfs") IN
    IF rootfs_line = "" THEN 0 ELSE size_gb(size_search(rootfs_line, 1))

\* disk_location of parse_lxc_configs
lxc_disk_location(lines) ==
    LET rootfs_line == extract_line(lines, "^rootfs") IN
    IF rootfs_line # "" /\ rootfs_match(rootfs_line) # ""
    THEN storage_location(rootfs_match(rootfs_line)) ELSE "-"

----------------------------------------------------------------------------
(* Argument parsing. *)

UsageLine == "Usage: script.py [-o|--outfile output.md]"

\* the while loop of parse_args from index k on (1-based); usage is TRUE
\* when the loop prints the usage message and calls sys.exit(1)
RECURSIVE parse_args_loop(_, _, _)
parse_args_loop(a, k, out) ==
    IF k > Len(a) THEN [usage |-> FALSE, outfile |-> out]
    ELSE IF a[k] \in {"-o", "--outfile"} /\ k + 1 <= Len(a)
         THEN parse_args_loop(a, k + 2, a[k + 1])
         ELSE [usage |-> TRUE, outfile |-> out]

\* parse_args as it would be if an argument that is no flag were skipped
RECURSIVE parse_args_lenient_loop(_, _, _)
parse_args_lenient_loop(a, k, out) ==
    IF k > Len(a) THEN [usage |-> FALSE, outfile |-> out]
    ELSE IF a[k] \in {"-o", "--outfile"} /\ k + 1 <= Len(a)
         THEN parse_args_lenient_loop(a, k + 2, a[k + 1])
         ELSE parse_args_lenient_loop(a, k + 1, out)

parse_args_lenient(a) == parse_args_lenient_loop(a, 1, "")

parse_args(a) == parse_args_loop(a, 1, "")

----------------------------------------------------------------------------
(* One iteration of the parser loops.  A config file is a record           *)
(* [name, readable, lines]; open() of an unreadable file raises OSError,   *)
(* int() of a value that is no integer raises ValueError.                  *)

VmDirectory == "/etc/pve/qemu-server"

LxcDirectory == "/etc/pve/lxc"

vm_paths == glob_files(VmDirectory, vm_dir, ".conf")

lxc_paths == glob_files(LxcDirectory, lxc_dir, ".conf")

\* the exception the body of the VM loop raises on file f, "" if none
vm_file_error(f) ==
    IF ~f.readable THEN "OSError"
    ELSE IF ~IsInt(OrElse(extract_value(f.lines, "^memory"), "0")) THEN "ValueError"
    ELSE IF ~IsInt(OrElse(extract_value(f.lines, "^cores"), "1")) THEN "ValueError"
    ELSE ""

\* the fields the VM loop formats into one row
vm_record(f) ==
    [vmid   |-> guest_id(f.name),
     name   |-> OrElse(extract_value(f.lines, "^name"), "(no name)"),
     mem    |-> int(OrElse(extract_value(f.lines, "^memory"), "0")),
     cores  |-> int(OrElse(extract_value(f.lines, "^cores"), "1")),
     disk   |-> disk_size_sum(f.lines),
     locs   |-> disk_locations_str(f.lines)]

lxc_file_error(f) ==
    IF ~f.readable THEN "OSError"
    ELSE IF ~IsInt(OrElse(extract_value(f.lines, "^memory"), "0")) THEN "ValueError"
    ELSE IF ~IsInt(OrElse(extract_value(f.lines, "^cores"), "1")) THEN "ValueError"
    ELSE IF ~IsInt(OrElse(extract_value(f.lines, "^swap"), "0")) THEN "ValueError"
    ELSE ""

\* the dict the container loop appends to lxc_data
lxc_record(f) ==
    [id       |-> guest_id(f.name),
     hostname |-> OrElse(extract_value(f.lines, "^hostname"), "(no name)"),
     memory   |-> int(OrElse(extract_value(f.lines, "^memory"), "0")),
     cores    |-> int(OrElse(extract_value(f.lines, "^cores"), "1")),
     swap     |-> int(OrElse(extract_value(f.lines, "^swap"), "0")),
     disk     |-> lxc_disk_gb(f.lines),
     location |-> lxc_disk_location(f.lines)]

----------------------------------------------------------------------------
(* Formatting.  The ANSI colour codes that decorate the headings are left  *)
(* out of the text.                                                        *)

IntToStr(n) == IF n < 0 THEN "-" \o NatToStr(0 - n) ELSE NatToStr(n)

\* the format specification :<w
RECURSIVE PadRight(_, _)
PadRight(s, w) == IF Len(s) >= w THEN s ELSE PadRight(s \o " ", w)

\* the f-string of parse_vm_configs that builds one row of the VM table
format_vm_row(r) ==
    "| " \o PadRight(r.vmid, 6) \o " | " \o PadRight(r.name, 18)
    \o " | " \o PadRight(IntToStr(r.mem), 12) \o " | " \o PadRight(IntToStr(r.cores), 5)
    \o " | " \o PadRight(IntToStr(r.disk), 9) \o " | " \o PadRight(r.locs, 20) \o " |"

\* the f-string of print_output that builds one row of the container table
format_lxc_row(r) ==
    "| " \o PadRight(r.id, 7) \o " | " \o PadRight(r.hostname, 18)
    \o " | " \o PadRight(IntToStr(r.memory), 12) \o " | " \o PadRight(IntToStr(r.cores), 5)
    \o " | " \o PadRight(IntToStr(r.swap), 9) \o " | " \o PadRight(IntToStr(r.disk), 9)
    \o " | " \o PadRight(r.location, 13) \o " |"

RECURSIVE format_vm_rows(_)
format_vm_rows(rows) ==
    IF rows = <<>> THEN <<>> ELSE <<format_vm_row(Head(rows))>> \o format_vm_rows(Tail(rows))

RECURSIVE format_lxc_rows(_)
format_lxc_rows(rows) ==
    IF rows = <<>> THEN <<>> ELSE <<format_lxc_row(Head(rows))>> \o format_lxc_rows(Tail(rows))

\* cpu_percentage as it would be without the factor 100
cpu_percentage_ratio(total_alloc_cpu, cores) ==
    IF cores # 0 THEN <<total_alloc_cpu, cores>> ELSE <<0, 1>>

\* cpu_percentage of print_output as an exact fraction <<numerator, denominator>>
\* (the script computes it in double precision)
cpu_percentage(total_alloc_cpu, cores) ==
    IF cores # 0 THEN <<100 * total_alloc_cpu, cores>> ELSE <<0, 1>>

\* the nearest integer to n / d, a tie going to the even one (n >= 0, d > 0)
round_half_even(n, d) ==
    LET q == n \div d
        r == n % d
    IN  IF 2 * r > d THEN q + 1
        ELSE IF 2 * r < d THEN q
        ELSE IF q % 2 = 0 THEN q ELSE q + 1

\* the format specification :.2f applied to a fraction that is not negative
format_2f(x) ==
    LET h == round_half_even(100 * x[1], x[2]) IN
    NatToStr(h \div 100) \o "." \o NatToStr((h % 100) \div 10) \o NatToStr(h % 10)

Banner == "======================================"

VmHeading == "### VM Memory, CPU & Disk Allocation"

LxcHeading == "### LXC Memory, CPU & Disk Allocation"

VmHeader ==
    "| " \o PadRight("VM ID", 6) \o " | " \o PadRight("Name", 18)
    \o " | " \o PadRight("Memory (MB)", 12) \o " | " \o PadRight("vCPUs", 5)
    \o " | " \o PadRight("Disk (GB)", 9) \o " | " \o PadRight("Disk Location(s)", 20) \o " |"

VmSeparator ==
    "|--------|--------------------|-------------|-------|-----------|----------------------|"

LxcHeader ==
    "| " \o PadRight("LXC ID", 7) \o " | " \o PadRight("Hostname", 18)
    \o " | " \o PadRight("Memory (MB)", 12) \o " | " \o PadRight("Cores", 5)
    \o " | " \o PadRight("Swap (MB)", 9) \o " | " \o PadRight("Disk (GB)", 9)
    \o " | " \o PadRight("Disk Location", 13) \o " |"

LxcSeparator ==
    "|---------|--------------------|-------------|-------|-----------|-----------|---------------|"

CpuAllocationPrefix == "- CPU Allocation: **"

\* the last twelve lines of output_lines: the two summaries
summary_lines(vm_mem, vm_disk, vm_vcpus, lxc_mem, lxc_disk, lxc_cores, cores) ==
    <<"### CPU Summary",
      "- Total VM vCPUs: **" \o IntToStr(vm_vcpus) \o "**",
      "- Total LXC CPU cores: **" \o IntToStr(lxc_cores) \o "**",
      "- Total Allocated CPU: **" \o IntToStr(vm_vcpus + lxc_cores) \o "**",
      "- Host CPU Capacity: **" \o IntToStr(cores) \o " cores**",
      CpuAllocationPrefix \o format_2f(cpu_percentage(vm_vcpus + lxc_cores, cores)) \o "%**",
      "",
      "### Memory & Disk Summary",
      "- Total VM Memory: " \o IntToStr(vm_mem) \o " MB",
      "- Total VM Disk: " \o IntToStr(vm_disk) \o " GB",
      "- Total LXC Memory: " \o IntToStr(lxc_mem) \o " MB",
      "- Total LXC Disk: " \o IntToStr(lxc_disk) \o " GB",
      "- Total Allocated Memory: " \o IntToStr(vm_mem + lxc_mem) \o " MB",
      "- Total Allocated Disk: " \o IntToStr(vm_disk + lxc_disk) \o " GB">>

\* output_lines of print_output
output_lines ==
    <<VmHeading, VmHeader, VmSeparator>> \o format_vm_rows(vm_rows)
    \o <<"", LxcHeading, LxcHeader, LxcSeparator>> \o format_lxc_rows(lxc_data)
    \o <<"">>
    \o summary_lines(total_vm_mem, total_vm_disk, total_vm_vcpus,
                     total_lxc_mem, total_lxc_disk, total_lxc_cores, host_cpu_cores)

----------------------------------------------------------------------------
(* Host status. *)

CpuInfoNotAvailable == "CPU info not available"

\* the try block of get_pve_status: check_output raising, or next() finding
\* no line and raising StopIteration, both end in the except branch
cpu_line(top) ==
    IF top.ok /\ \E k \in 1..Len(top.lines) : StartsWith(top.lines[k], "%Cpu(s)")
    THEN top.lines[CHOOSE k \in 1..Len(top.lines) :
                      /\ StartsWith(top.lines[k], "%Cpu(s)")
                      /\ \A j \in 1..(k - 1) : ~StartsWith(top.lines[j], "%Cpu(s)")]
    ELSE CpuInfoNotAvailable

\* pve_status_error as it would be without the try block around top
pve_status_error_unguarded(h) ==
    IF ~h.proc_ok THEN "OSError"
    ELSE IF ~h.top.ok THEN "CalledProcessError"
    ELSE IF \A k \in 1..Len(h.top.lines) : ~StartsWith(h.top.lines[k], "%Cpu(s)")
         THEN "StopIteration"
    ELSE ""

\* the exception get_pve_status raises, "" if none: the reads of /proc are
\* not guarded, the call of top is
pve_status_error(h) == IF h.proc_ok THEN "" ELSE "OSError"

UsagePrefix == "- Usage: "

\* the status text; its Uptime, Memory and CPU lines print host counters
\* that are not part of the model
get_pve_status(h) == "### PVE Status\n" \o UsagePrefix \o cpu_line(h.top) \o "\n"

----------------------------------------------------------------------------
(* print(): to the console, or to the report file while it is open; on a   *)
(* closed file it raises ValueError.                                       *)

CanPrint(stdout, file) == stdout = "console" \/ file.open

ConsoleAfter(stdout, con, ls) == IF stdout = "console" THEN con \o ls ELSE con

FileAfter(stdout, file, ls) ==
    IF stdout = "file" /\ file.open THEN [file EXCEPT !.lines = @ \o ls] ELSE file

\* open(outfile, "w"): creates the file or truncates it
OpenForWriting(file) == [exists |-> TRUE, open |-> TRUE, lines |-> <<>>]

\* leaving the with block
Close(file) == [file EXCEPT !.open = FALSE]

----------------------------------------------------------------------------
(* Inputs.  The arguments and the state of the report file are there when  *)
(* the process starts; a directory listing, the core count and the host    *)
(* status are chosen at the step that reads them.                          *)

\* all sequences over S of length at most n
SeqsUpTo(S, n) == UNION {[1..k -> S] : k \in 0..n}

ArgTokens == {"-o", "--outfile", "report.md", "-x"}

ArgLists == SeqsUpTo(ArgTokens, MaxArgs)

File(n, ls) == [name |-> n, readable |-> TRUE, lines |-> ls]

Unreadable(n) == [name |-> n, readable |-> FALSE, lines |-> <<>>]

vm_web1 ==
    File("100.conf", <<"name: web1", "memory: 2048", "cores: 2",
                       "scsi0: local-lvm:vm-100-disk-0,size=32G">>)

vm_malformed == File("101.conf", <<"name: db", "memory: 2G", "cores: 2">>)

vm_unreadable == Unreadable("102.conf")

ct_ct1 ==
    File("101.conf", <<"hostname: ct1", "memory: 512", "cores: 1", "swap: 512",
                       "rootfs: local-zfs:subvol-101-disk-0,size=8G">>)

ct_malformed == File("103.conf", <<"hostname: ct3", "memory: 256", "swap: none">>)

ct_unreadable == Unreadable("104.conf")

\* the directory listings of the whole-program runs
RunVmDirs == {<<>>, <<vm_web1>>, <<vm_malformed>>, <<vm_web1, vm_unreadable>>}

RunLxcDirs == {<<>>, <<ct_ct1>>, <<ct_malformed>>, <<ct_unreadable, ct_ct1>>}

\* what os.cpu_count() returns in the whole-program runs; 0 stands for None
RunCpuCounts == {0, MaxHostCores}

\* what `top -bn1` can answer: it fails, it prints no %Cpu(s) line, it prints one
TopOutcomes ==
    {[ok |-> FALSE, lines |-> <<>>],
     [ok |-> TRUE, lines |-> <<"top - 10:00:00 up 1 day", "Tasks: 100 total">>],
     [ok |-> TRUE, lines |-> <<"top - 10:00:00 up 1 day", "%Cpu(s):  1.0 us,  0.5 sy">>]}

Hosts == {[proc_ok |-> p, top |-> t] : p \in BOOLEAN, t \in TopOutcomes}

\* the value of host before get_pve_status has run
HostUnread == [proc_ok |-> TRUE, top |-> [ok |-> FALSE, lines |-> <<>>]]

AbsentFile == [exists |-> FALSE, open |-> FALSE, lines |-> <<>>]

StaleFile == [exists |-> TRUE, open |-> FALSE, lines |-> <<"stale report">>]

OutFiles == {AbsentFile, StaleFile}

NoCall == [lines |-> <<>>, pattern |-> ""]

----------------------------------------------------------------------------
(* The run of main(). *)

\* the state of everything but args, out_file and pc when the process starts
Fresh ==
    /\ vm_dir = <<>>
    /\ lxc_dir = <<>>
    /\ host = HostUnread
    /\ outfile = ""
    /\ host_cpu_cores = 0
    /\ i = 0
    /\ vm_rows = <<>> /\ total_vm_mem = 0 /\ total_vm_disk = 0 /\ total_vm_vcpus = 0
    /\ lxc_data = <<>> /\ total_lxc_mem = 0 /\ total_lxc_disk = 0 /\ total_lxc_cores = 0
    /\ sys_stdout = "console"
    /\ console = <<>>
    /\ exit_code = -1
    /\ error = ""
    /\ ret = ""

Init ==
    /\ args \in ArgLists
    /\ out_file \in OutFiles
    /\ pc = "main"
    /\ call_args = NoCall
    /\ Fresh

probe == <<call_args, ret>>

vm_state == <<vm_dir, vm_rows, total_vm_mem, total_vm_disk, total_vm_vcpus>>

lxc_state == <<lxc_dir, lxc_data, total_lxc_mem, total_lxc_disk, total_lxc_cores>>

io_state == <<sys_stdout, out_file, console>>

\* an uncaught exception e ends the process with status 1 and a traceback
\* on standard error
Raise(e) ==
    /\ pc' = "exited"
    /\ exit_code' = 1
    /\ error' = e

\* main: outfile = parse_args(sys.argv[1:]); host_cpu_cores = os.cpu_count() or 1
ParseArgs(counts) ==
    /\ pc = "main"
    /\ IF parse_args(args).usage
       THEN /\ console' = ConsoleAfter(sys_stdout, console, <<UsageLine>>)
            /\ Raise("SystemExit")
            /\ UNCHANGED <<outfile, host_cpu_cores>>
       ELSE /\ outfile' = parse_args(args).outfile
            /\ \E cpu_count \in counts :
                  host_cpu_cores' = (IF cpu_count = 0 THEN 1 ELSE cpu_count)
            /\ pc' = "glob_vm"
            /\ UNCHANGED <<console, exit_code, error>>
    /\ UNCHANGED <<args, host, probe, i, vm_state, lxc_state, sys_stdout, out_file>>

\* parse_vm_configs: the call of glob_files that starts the for loop
GlobVm(listings) ==
    /\ pc = "glob_vm"
    /\ vm_dir' \in listings
    /\ i' = 1
    /\ pc' = "parse_vm_configs"
    /\ UNCHANGED <<args, host, probe, outfile, host_cpu_cores, vm_rows, total_vm_mem,
                   total_vm_disk, total_vm_vcpus, lxc_state, io_state, exit_code, error>>

\* ParseVmFile as it would be if the memory total were assigned, not added to
ParseVmFile_overwrite ==
    /\ pc = "parse_vm_configs"
    /\ i <= Len(vm_paths)
    /\ LET f == vm_paths[i]
           e == vm_file_error(f)
           r == vm_record(f)
       IN  IF e # ""
           THEN /\ Raise(e)
                /\ UNCHANGED <<i, vm_state>>
           ELSE /\ vm_rows' = Append(vm_rows, r)
                /\ total_vm_vcpus' = total_vm_vcpus + r.cores
                /\ total_vm_mem' = r.mem
                /\ total_vm_disk' = total_vm_disk + r.disk
                /\ i' = i + 1
                /\ UNCHANGED <<vm_dir, pc, exit_code, error>>
    /\ UNCHANGED <<args, host, probe, outfile, host_cpu_cores, lxc_state, io_state>>

\* one iteration of the for loop of parse_vm_configs
ParseVmFile ==
    /\ pc = "parse_vm_configs"
    /\ i <= Len(vm_paths)
    /\ LET f == vm_paths[i]
           e == vm_file_error(f)
           r == vm_record(f)
       IN  IF e # ""
           THEN /\ Raise(e)
                /\ UNCHANGED <<i, vm_state>>
           ELSE /\ vm_rows' = Append(vm_rows, r)
                /\ total_vm_vcpus' = total_vm_vcpus + r.cores
                /\ total_vm_mem' = total_vm_mem + r.mem
                /\ total_vm_disk' = total_vm_disk + r.disk
                /\ i' = i + 1
                /\ UNCHANGED <<vm_dir, pc, exit_code, error>>
    /\ UNCHANGED <<args, host, probe, outfile, host_cpu_cores, lxc_state, io_state>>

\* parse_vm_configs returns; main calls parse_lxc_configs
VmLoopEnd ==
    /\ pc = "parse_vm_configs"
    /\ i > Len(vm_paths)
    /\ pc' = "glob_lxc"
    /\ UNCHANGED <<args, host, probe, outfile, host_cpu_cores, i, vm_state, lxc_state,
                   io_state, exit_code, error>>

\* parse_lxc_configs: the call of glob_files that starts the for loop
GlobLxc(listings) ==
    /\ pc = "glob_lxc"
    /\ lxc_dir' \in listings
    /\ i' = 1
    /\ pc' = "parse_lxc_configs"
    /\ UNCHANGED <<args, host, probe, outfile, host_cpu_cores, vm_state, lxc_data,
                   total_lxc_mem, total_lxc_disk, total_lxc_cores, io_state,
                   exit_code, error>>

\* ParseLxcFile as it would be if a file that cannot be parsed were skipped
ParseLxcFile_skip ==
    /\ pc = "parse_lxc_configs"
    /\ i <= Len(lxc_paths)
    /\ LET f == lxc_paths[i]
           e == lxc_file_error(f)
           r == lxc_record(f)
       IN  IF e # ""
           THEN /\ i' = i + 1
                /\ UNCHANGED <<lxc_state, pc, exit_code, error>>
           ELSE /\ lxc_data' = Append(lxc_data, r)
                /\ total_lxc_cores' = total_lxc_cores + r.cores
                /\ total_lxc_mem' = total_lxc_mem + r.memory
                /\ total_lxc_disk' = total_lxc_disk + r.disk
                /\ i' = i + 1
                /\ UNCHANGED <<lxc_dir, pc, exit_code, error>>
    /\ UNCHANGED <<args, host, probe, outfile, host_cpu_cores, vm_state, io_state>>

\* one iteration of the for loop of parse_lxc_configs
ParseLxcFile ==
    /\ pc = "parse_lxc_configs"
    /\ i <= Len(lxc_paths)
    /\ LET f == lxc_paths[i]
           e == lxc_file_error(f)
           r == lxc_record(f)
       IN  IF e # ""
           THEN /\ Raise(e)
                /\ UNCHANGED <<i, lxc_state>>
           ELSE /\ lxc_data' = Append(lxc_data, r)
                /\ total_lxc_cores' = total_lxc_cores + r.cores
                /\ total_lxc_mem' = total_lxc_mem + r.memory
                /\ total_lxc_disk' = total_lxc_disk + r.disk
                /\ i' = i + 1
                /\ UNCHANGED <<lxc_dir, pc, exit_code, error>>
    /\ UNCHANGED <<args, host, probe, outfile, host_cpu_cores, vm_state, io_state>>

\* parse_lxc_configs returns to main
LxcLoopEnd ==
    /\ pc = "parse_lxc_configs"
    /\ i > Len(lxc_paths)
    /\ pc' = "open_outfile"
    /\ UNCHANGED <<args, host, probe, outfile, host_cpu_cores, i, vm_state, lxc_state,
                   io_state, exit_code, error>>

\* main: if outfile: with open(outfile, "w") as f: sys.stdout = f
OpenOutfile ==
    /\ pc = "open_outfile"
    /\ IF outfile # ""
       THEN /\ out_file' = OpenForWriting(out_file)
            /\ sys_stdout' = "file"
       ELSE UNCHANGED <<out_file, sys_stdout>>
    /\ pc' = "print_output"
    /\ UNCHANGED <<args, host, probe, outfile, host_cpu_cores, i, vm_state, lxc_state,
                   console, exit_code, error>>

\* print_output: the first banner line
PrintBanner ==
    /\ pc = "print_output"
    /\ IF CanPrint(sys_stdout, out_file)
       THEN /\ console' = ConsoleAfter(sys_stdout, console, <<Banner>>)
            /\ out_file' = FileAfter(sys_stdout, out_file, <<Banner>>)
            /\ pc' = "print_status"
            /\ UNCHANGED <<exit_code, error>>
       ELSE /\ Raise("ValueError")
            /\ UNCHANGED <<console, out_file>>
    /\ UNCHANGED <<args, host, probe, outfile, host_cpu_cores, i, vm_state, lxc_state,
                   sys_stdout>>

\* print_output: print(get_pve_status()) and the second banner line; an
\* exception leaves the with block of main, which closes the file
PrintStatus(hosts) ==
    /\ pc = "print_status"
    /\ \E h \in hosts :
          /\ host' = h
          /\ IF pve_status_error(h) # ""
             THEN /\ Raise(pve_status_error(h))
                  /\ out_file' = Close(out_file)
                  /\ UNCHANGED console
             ELSE /\ console' = ConsoleAfter(sys_stdout, console, <<get_pve_status(h), Banner>>)
                  /\ out_file' = FileAfter(sys_stdout, out_file, <<get_pve_status(h), Banner>>)
                  /\ pc' = "print_lines"
                  /\ UNCHANGED <<exit_code, error>>
    /\ UNCHANGED <<args, probe, outfile, host_cpu_cores, i, vm_state, lxc_state, sys_stdout>>

\* print_output: the totals, output_lines and the loop that prints them
PrintLines ==
    /\ pc = "print_lines"
    /\ console' = ConsoleAfter(sys_stdout, console, output_lines)
    /\ out_file' = FileAfter(sys_stdout, out_file, output_lines)
    /\ pc' = "print_return"
    /\ UNCHANGED <<args, host, probe, outfile, host_cpu_cores, i, vm_state, lxc_state,
                   sys_stdout, exit_code, error>>

SavedLine(path) == "Saved report to " \o path

\* main after print_output returns: with an outfile the with block closes
\* the file and the confirmation is printed; sys.stdout is not rebound
Finish ==
    /\ pc = "print_return"
    /\ IF outfile # ""
       THEN /\ out_file' = Close(out_file)
            /\ IF CanPrint(sys_stdout, Close(out_file))
               THEN /\ console' = ConsoleAfter(sys_stdout, console, <<SavedLine(outfile)>>)
                    /\ pc' = "done"
                    /\ exit_code' = 0
                    /\ UNCHANGED error
               ELSE /\ Raise("ValueError")
                    /\ UNCHANGED console
       ELSE /\ pc' = "done"
            /\ exit_code' = 0
            /\ UNCHANGED <<out_file, console, error>>
    /\ UNCHANGED <<args, host, probe, outfile, host_cpu_cores, i, vm_state, lxc_state,
                   sys_stdout>>

Next ==
    \/ ParseArgs(RunCpuCounts)
    \/ GlobVm(RunVmDirs)
    \/ ParseVmFile
    \/ VmLoopEnd
    \/ GlobLxc(RunLxcDirs)
    \/ ParseLxcFile
    \/ LxcLoopEnd
    \/ OpenOutfile
    \/ PrintBanner
    \/ PrintStatus(Hosts)
    \/ PrintLines
    \/ Finish

Spec == Init /\ [][Next]_vars

----------------------------------------------------------------------------
(* The two parsers alone, over richer directories. *)

vm_copy ==
    File("100.conf.conf", <<"name: web1-copy", "MEMORY = 1024 ", "cores: 1",
                            "sata0: nfs:vm-100-disk-1,size=2048M">>)

vm_bare == File("105.conf", <<"boot: order=scsi0", "ostype: l26">>)

vm_cloudinit ==
    File("103.conf", <<"cores: 4", "nameserver: 8.8.8.8", "memory: 4096",
                       "virtio0: local:103/vm-103-disk-0.qcow2">>)

vm_disks ==
    File("104.conf", <<"name: store", "scsi0: local-lvm:vm-104-disk-0,size=10G,ssd=1",
                       "sata1: nfs:vm-104-disk-1,size=1500M",
                       "efidisk0: local-lvm:vm-104-disk-2,efitype=4m,size=4M",
                       "ide2: local:iso/debian.iso,media=cdrom,size=600M",
                       "scsi1: tank:vm-104-disk-3,size=1T",
                       "scsihw: virtio-scsi-pci">>)

vm_notes == File("notes.txt", <<"memory: 9999", "scsi0: local:x,size=7G">>)

\* a VM whose only disk line carries the given size text
vm_sized(n, unit) ==
    File("2" \o NatToStr(n) \o unit \o ".conf",
         <<"memory: 128", "scsi0: local-lvm:vm-disk-0,size=" \o
           NatToStr(IF unit = "M" THEN 1024 * n ELSE n) \o unit>>)

GuestVmFiles ==
    {vm_web1, vm_copy, vm_bare, vm_cloudinit, vm_disks, vm_notes}
    \cup {vm_sized(n, u) : n \in 1..MaxSizeGB, u \in {"G", "M"}}

ct_bare == File("105.conf", <<"arch: amd64", "ostype: debian">>)

ct_nosize ==
    File("106.conf", <<"hostname: ct6", "rootfs: local-zfs:subvol-106-disk-0", "cores: 2">>)

ct_megabytes ==
    File("107.conf", <<"hostname: ct7", "memory: 256", "swap: 0",
                       "rootfs: local:107/vm-107-disk-0.raw,size=3072M",
                       "rootfs: local:107/vm-107-disk-1.raw,size=9G">>)

ct_copy == File("101.conf.conf", <<"hostname=ct1b", "memory=64", "rootfs: tank:s,size=2G">>)

GuestLxcFiles == {ct_ct1, ct_bare, ct_nosize, ct_megabytes, ct_copy}

\* the listings of at most n of the files S, in every order
Listings(S, n) ==
    {d \in SeqsUpTo(S, n) : \A j, k \in 1..Len(d) : j # k => d[j].name # d[k].name}

InitGuests ==
    /\ args = <<>>
    /\ out_file = AbsentFile
    /\ pc = "glob_vm"
    /\ call_args = NoCall
    /\ Fresh

NextGuests ==
    \/ GlobVm(Listings(GuestVmFiles, MaxGuests))
    \/ ParseVmFile
    \/ VmLoopEnd
    \/ GlobLxc(Listings(GuestLxcFiles, MaxGuests - Len(vm_dir)))
    \/ ParseLxcFile
    \/ LxcLoopEnd

SpecGuests == InitGuests /\ [][NextGuests]_vars

----------------------------------------------------------------------------
(* print_output alone, called with every combination of CPU totals and     *)
(* host core count.                                                        *)

InitPrint ==
    /\ args = <<>>
    /\ out_file = AbsentFile
    /\ pc = "print_output"
    /\ call_args = NoCall
    /\ vm_dir = <<>>
    /\ lxc_dir = <<>>
    /\ host = HostUnread
    /\ outfile = ""
    /\ host_cpu_cores \in 0..MaxHostCores
    /\ i = 0
    /\ vm_rows = <<>> /\ total_vm_mem = 0 /\ total_vm_disk = 0
    /\ total_vm_vcpus \in 0..MaxCpu
    /\ lxc_data = <<>> /\ total_lxc_mem = 0 /\ total_lxc_disk = 0
    /\ total_lxc_cores \in 0..MaxCpu
    /\ sys_stdout = "console"
    /\ console = <<>>
    /\ exit_code = -1
    /\ error = ""
    /\ ret = ""

NextPrint ==
    \/ PrintBanner
    \/ PrintStatus(Hosts)
    \/ PrintLines

SpecPrint == InitPrint /\ [][NextPrint]_vars

----------------------------------------------------------------------------
(* extract_value alone, called on every short file of these lines. *)

ProbeLines ==
    {"name: web1", "NAME = Web2 ", "name", "names", "nameserver: 8.8.8.8",
     " name: indented", "Name:a=b", "memory: 512"}

ProbePatterns == {"^name", "^memory"}

InitExtract ==
    /\ args = <<>>
    /\ out_file = AbsentFile
    /\ pc = "extract_value"
    /\ call_args \in [lines : SeqsUpTo(ProbeLines, MaxLines), pattern : ProbePatterns]
    /\ Fresh

CallExtractValue ==
    /\ pc = "extract_value"
    /\ ret' = extract_value(call_args.lines, call_args.pattern)
    /\ pc' = "returned"
    /\ UNCHANGED <<args, host, call_args, outfile, host_cpu_cores, i, vm_state, lxc_state,
                   io_state, exit_code, error>>

NextExtract == CallExtractValue

SpecExtract == InitExtract /\ [][NextExtract]_vars

----------------------------------------------------------------------------
(* Notions the properties below are stated with. *)

\* what print writes to at present
Dest == IF sys_stdout = "file" THEN out_file.lines ELSE console

\* the run has ended
Ended == pc \in {"done", "exited"}

\* the report as print_output emits it
FullReport == <<Banner, get_pve_status(host), Banner>> \o output_lines

\* an argument list made of -o|--outfile <path> pairs only
WellShapedArgs(a) ==
    /\ Len(a) % 2 = 0
    /\ \A k \in 1..Len(a) : k % 2 = 1 => a[k] \in {"-o", "--outfile"}

\* the last path of a well-shaped argument list, "" if it is empty
LastPath(a) == IF a = <<>> THEN "" ELSE a[Len(a)]

\* a field of a config file that is there but is no integer
PresentNotInt(lines, pattern) ==
    extract_value(lines, pattern) # "" /\ ~IsInt(extract_value(lines, pattern))

BadVmFile(f) ==
    \/ ~f.readable
    \/ PresentNotInt(f.lines, "^memory")
    \/ PresentNotInt(f.lines, "^cores")

BadLxcFile(f) ==
    \/ ~f.readable
    \/ PresentNotInt(f.lines, "^memory")
    \/ PresentNotInt(f.lines, "^cores")
    \/ PresentNotInt(f.lines, "^swap")

\* some config file listed so far is unreadable or malformed
BadGuestListed ==
    \/ \E k \in 1..Len(vm_paths) : BadVmFile(vm_paths[k])
    \/ \E k \in 1..Len(lxc_paths) : BadLxcFile(lxc_paths[k])

\* nothing has been printed and the report file is as it was at the start
NoOutputYet ==
    /\ console = <<>>
    /\ sys_stdout = "console"
    /\ out_file \in OutFiles

\* top failed, or printed no line that starts with %Cpu(s)
TopUnusable(h) ==
    ~h.top.ok \/ \A k \in 1..Len(h.top.lines) : ~StartsWith(h.top.lines[k], "%Cpu(s)")

\* print_output has printed its first line
ReportStarted == Len(Dest) >= 1 /\ Dest[1] = Banner

\* print_output has printed the host status
StatusPrinted == ReportStarted /\ Len(Dest) >= 3

----------------------------------------------------------------------------
(* Properties of the whole run (specification Spec). *)

\* C1: a run with -o <path> whose inputs are all readable and well formed
\* ends with status 0, the full report in the file at <path> and exactly
\* one line on standard output, the confirmation "Saved report to <path>".
C1_OutfileRunSucceeds ==
    ( /\ Ended
      /\ WellShapedArgs(args)
      /\ LastPath(args) # ""
      /\ ~BadGuestListed
      /\ host.proc_ok )
    => /\ pc = "done"
       /\ exit_code = 0
       /\ console = <<SavedLine(LastPath(args))>>
       /\ out_file.exists
       /\ out_file.lines = FullReport

\* C2: an argument list that is not a sequence of -o|--outfile <path> pairs
\* ends the run in parse_args: the usage message is the only line printed,
\* the exit status is not zero, no guest directory has been listed, no
\* record built and the report file not touched.
C2_UsageExit ==
    (~WellShapedArgs(args) /\ pc # "main")
    => /\ pc = "exited"
       /\ exit_code > 0
       /\ error = "SystemExit"
       /\ console = <<UsageLine>>
       /\ vm_dir = <<>> /\ lxc_dir = <<>>
       /\ vm_rows = <<>> /\ lxc_data = <<>>
       /\ sys_stdout = "console"
       /\ out_file \in OutFiles

\* a run that was given -o as its last argument, with no path, has ended
C2_Witness ==
    /\ args = <<"-o", "report.md", "-o">>
    /\ pc = "exited"
    /\ console = <<UsageLine>>

\* C9: when top fails or prints no %Cpu(s) line, the status block carries
\* the placeholder, get_pve_status raises nothing, and a run whose /proc
\* files are readable emits the complete report.
C9_TopFailureIsRecovered ==
    /\ (StatusPrinted /\ TopUnusable(host))
       => Dest[2] = "### PVE Status\n- Usage: CPU info not available\n"
    /\ (ReportStarted /\ Ended /\ TopUnusable(host) /\ host.proc_ok)
       => /\ Dest = FullReport
          /\ error \notin {"CalledProcessError", "StopIteration", "OSError"}

\* a run to standard output has ended after top failed
C9_Witness ==
    /\ pc = "done"
    /\ ~host.top.ok
    /\ host.proc_ok
    /\ console = FullReport
    /\ Len(vm_rows) = 1

\* C10: no output is produced before both parsers have returned, and a
\* listed config file that is unreadable or malformed ends the run with
\* nothing printed and the report file neither created nor truncated.
C10_ParsersRunBeforeOutput ==
    /\ pc \in {"glob_vm", "parse_vm_configs", "glob_lxc", "parse_lxc_configs"}
       => NoOutputYet
    /\ (\E k \in 1..Len(vm_paths) : BadVmFile(vm_paths[k]))
       => pc \in {"parse_vm_configs", "exited"}
    /\ (\E k \in 1..Len(lxc_paths) : BadLxcFile(lxc_paths[k]))
       => pc \in {"parse_lxc_configs", "exited"}
    /\ BadGuestListed
       => /\ NoOutputYet
          /\ pc = "exited" => (exit_code = 1 /\ error \in {"OSError", "ValueError"})

\* a run with -o report.md over an existing report has ended on a malformed
\* container config, after a VM config was parsed
C10_Witness ==
    /\ pc = "exited"
    /\ error = "ValueError"
    /\ outfile = "report.md"
    /\ out_file = StaleFile
    /\ lxc_dir = <<ct_malformed>>
    /\ Len(vm_rows) = 1
    /\ console = <<>>

----------------------------------------------------------------------------
(* Properties of the parsers (specification SpecGuests). *)

RECURSIVE SumSeq(_)
SumSeq(q) == IF Len(q) = 0 THEN 0 ELSE q[1] + SumSeq(Tail(q))

\* the sum of the second components of a set of pairs
RECURSIVE SumPairs(_)
SumPairs(S) ==
    IF S = {} THEN 0
    ELSE LET x == CHOOSE x \in S : TRUE IN x[2] + SumPairs(S \ {x})

VmLoopDone == pc \in {"glob_lxc", "parse_lxc_configs", "open_outfile"}

LxcLoopDone == pc = "open_outfile"

VmFileSet == {vm_paths[k] : k \in 1..Len(vm_paths)}

LxcFileSet == {lxc_paths[k] : k \in 1..Len(lxc_paths)}

\* C3: each parser's totals are the sums over the records it returned, a
\* finished parser has one record per config file and totals that depend
\* on the set of files only, and an empty directory gives no record and
\* totals of 0.
C3_TotalsAreSums ==
    /\ total_vm_mem = SumSeq([k \in 1..Len(vm_rows) |-> vm_rows[k].mem])
    /\ total_vm_disk = SumSeq([k \in 1..Len(vm_rows) |-> vm_rows[k].disk])
    /\ total_vm_vcpus = SumSeq([k \in 1..Len(vm_rows) |-> vm_rows[k].cores])
    /\ total_lxc_mem = SumSeq([k \in 1..Len(lxc_data) |-> lxc_data[k].memory])
    /\ total_lxc_disk = SumSeq([k \in 1..Len(lxc_data) |-> lxc_data[k].disk])
    /\ total_lxc_cores = SumSeq([k \in 1..Len(lxc_data) |-> lxc_data[k].cores])
    /\ VmLoopDone =>
          LET recs == {<<f.name, vm_record(f)>> : f \in VmFileSet} IN
          /\ Len(vm_rows) = Cardinality(VmFileSet)
          /\ total_vm_mem = SumPairs({<<x[1], x[2].mem>> : x \in recs})
          /\ total_vm_disk = SumPairs({<<x[1], x[2].disk>> : x \in recs})
          /\ total_vm_vcpus = SumPairs({<<x[1], x[2].cores>> : x \in recs})
          /\ VmFileSet = {} =>
                (vm_rows = <<>> /\ total_vm_mem = 0 /\ total_vm_disk = 0 /\ total_vm_vcpus = 0)
    /\ LxcLoopDone =>
          LET recs == {<<f.name, lxc_record(f)>> : f \in LxcFileSet} IN
          /\ Len(lxc_data) = Cardinality(LxcFileSet)
          /\ total_lxc_mem = SumPairs({<<x[1], x[2].memory>> : x \in recs})
          /\ total_lxc_disk = SumPairs({<<x[1], x[2].disk>> : x \in recs})
          /\ total_lxc_cores = SumPairs({<<x[1], x[2].cores>> : x \in recs})
          /\ LxcFileSet = {} =>
                (lxc_data = <<>> /\ total_lxc_mem = 0 /\ total_lxc_disk = 0 /\ total_lxc_cores = 0)

\* the VM parser has returned two records with different memory and disk
C3_Witness ==
    /\ VmLoopDone
    /\ Len(vm_rows) = 2
    /\ vm_rows[1].mem # vm_rows[2].mem
    /\ vm_rows[1].disk > 0 /\ vm_rows[2].disk > 0
    /\ total_vm_mem = vm_rows[1].mem + vm_rows[2].mem

\* the key of a "key: value" or "key = value" line, in lower case
FieldKey(line) == LowerStr(Strip(re_split(line)[1]))

\* the file has a line for the field
HasField(lines, key) ==
    \E k \in 1..Len(lines) : Len(re_split(lines[k])) = 2 /\ FieldKey(lines[k]) = key

\* the line is a disk line of a VM: a bus name, an index, a colon, a volume
IsBusLine(l) ==
    \E b \in {n \in BusNames : StartsWith(l, n)}, c \in 1..Len(l) :
        /\ c > Len(b) + 1
        /\ \A k \in (Len(b) + 1)..(c - 1) : IsDigit(Char(l, k))
        /\ Char(l, c) = ":"
        /\ \E t \in (c + 1)..Len(l) :
              /\ \A k \in (c + 1)..(t - 1) : IsSpace(Char(l, k))
              /\ ~IsSpace(Char(l, t))
              /\ Char(l, t) # ","

\* C4: a config file that lacks an optional field still gives a record,
\* with memory 0, cores 1, swap 0, disk 0 (and location "-") and the name
\* "(no name)" for the field that is absent.
C4_FallbacksWhenAbsent ==
    /\ error = ""
    /\ \A k \in 1..Len(vm_rows) :
          LET ls == vm_paths[k].lines
              r  == vm_rows[k]
          IN  /\ ~HasField(ls, "memory") => r.mem = 0
              /\ ~HasField(ls, "cores") => r.cores = 1
              /\ ~HasField(ls, "name") => r.name = "(no name)"
              /\ (\A j \in 1..Len(ls) : ~IsBusLine(ls[j])) => (r.disk = 0 /\ r.locs = "-")
    /\ \A k \in 1..Len(lxc_data) :
          LET ls == lxc_paths[k].lines
              r  == lxc_data[k]
          IN  /\ ~HasField(ls, "memory") => r.memory = 0
              /\ ~HasField(ls, "cores") => r.cores = 1
              /\ ~HasField(ls, "swap") => r.swap = 0
              /\ ~HasField(ls, "hostname") => r.hostname = "(no name)"
              /\ ~HasField(ls, "rootfs") => (r.disk = 0 /\ r.location = "-")

\* the places of l where the text ,size=<digits><G|M> stands: <<p, q>> with
\* the comma at p and the unit at q
SizeSuffixes(l) ==
    LET starts == {p \in 1..Len(l) : Slice(l, p, p + 5) = ",size="} IN
    {pq \in starts \X (1..Len(l)) :
        /\ pq[2] > pq[1] + 6
        /\ \A k \in (pq[1] + 6)..(pq[2] - 1) : IsDigit(Char(l, k))
        /\ Char(l, pq[2]) \in {"G", "M"}}

\* the gigabytes the claim gives a line: v for the first ,size=vG, v div 1024
\* for the first ,size=vM, 0 without one
ClaimedGB(l) ==
    LET found == SizeSuffixes(l) IN
    IF found = {} THEN 0
    ELSE LET pq == CHOOSE x \in found : \A y \in found : x[1] <= y[1]
             v  == int(Slice(l, pq[1] + 6, pq[2] - 1))
         IN  IF Char(l, pq[2]) = "G" THEN v ELSE v \div 1024

ClaimedVmDisk(lines) ==
    SumSeq([k \in 1..Len(lines) |-> IF IsBusLine(lines[k]) THEN ClaimedGB(lines[k]) ELSE 0])

\* the container's disk: that of its first rootfs line
ClaimedLxcDisk(lines) ==
    IF \E k \in 1..Len(lines) : LowerStr(Slice(lines[k], 1, 6)) = "rootfs"
    THEN ClaimedGB(lines[CHOOSE k \in 1..Len(lines) :
                            /\ LowerStr(Slice(lines[k], 1, 6)) = "rootfs"
                            /\ \A j \in 1..(k - 1) : LowerStr(Slice(lines[j], 1, 6)) # "rootfs"])
    ELSE 0

\* C5: a guest's disk total is the sum over its disk lines of v for
\* ,size=vG, floor(v/1024) for ,size=vM and 0 otherwise; a line with
\* size=(1024*n)M gives the same total as the line with size=nG, namely n.
C5_DiskSizes ==
    /\ \A k \in 1..Len(vm_rows) :
          /\ vm_rows[k].disk = ClaimedVmDisk(vm_paths[k].lines)
          /\ \A n \in 1..MaxSizeGB, u \in {"G", "M"} :
                vm_paths[k].lines = vm_sized(n, u).lines => vm_rows[k].disk = n
    /\ \A k \in 1..Len(lxc_data) :
          lxc_data[k].disk = ClaimedLxcDisk(lxc_paths[k].lines)

\* size=2048M and size=2G have both been parsed, in one run
C5_Witness ==
    /\ VmLoopDone
    /\ vm_dir = <<vm_sized(2, "M"), vm_sized(2, "G")>>
    /\ vm_rows[1].disk = 2
    /\ vm_rows[2].disk = 2
    /\ total_vm_disk = 4

\* C7: the records of one kind, built from config files with pairwise
\* distinct names, have pairwise distinct ids.
C7_DistinctIds ==
    /\ \A j, k \in 1..Len(vm_rows) :
          vm_paths[j].name # vm_paths[k].name => vm_rows[j].vmid # vm_rows[k].vmid
    /\ \A j, k \in 1..Len(lxc_data) :
          lxc_paths[j].name # lxc_paths[k].name => lxc_data[j].id # lxc_data[k].id

----------------------------------------------------------------------------
(* Properties of print_output (specification SpecPrint). *)

Abs(n) == IF n < 0 THEN 0 - n ELSE n

\* the indices of the CPU Allocation line in what was printed
CpuAllocationAt == {k \in 1..Len(console) : StartsWith(console[k], CpuAllocationPrefix)}

\* the digits between "- CPU Allocation: **" and "%**"
CpuAllocationText ==
    LET l == console[CHOOSE k \in CpuAllocationAt : TRUE] IN
    Slice(l, Len(CpuAllocationPrefix) + 1, Len(l) - Len("%**"))

\* the hundredths a text of the form <digits>.<digit><digit> denotes
Hundredths(text) ==
    100 * int(Slice(text, 1, Len(text) - 3)) + int(Slice(text, Len(text) - 1, Len(text)))

\* C6: the percentage printed is 0.00 when the host capacity is 0, and
\* otherwise 100 * (VM vCPUs + container cores) / capacity to the nearest
\* hundredth, printed with two decimals; without guests it is 0.00.
C6_CpuAllocation ==
    pc = "print_return" =>
        LET a == total_vm_vcpus + total_lxc_cores
            b == host_cpu_cores
            t == CpuAllocationText
        IN  /\ Cardinality(CpuAllocationAt) = 1
            /\ EndsWith(console[CHOOSE k \in CpuAllocationAt : TRUE], "%**")
            /\ Len(t) >= 4
            /\ Char(t, Len(t) - 2) = "."
            /\ \A k \in (1..Len(t)) \ {Len(t) - 2} : IsDigit(Char(t, k))
            /\ b = 0 => t = "0.00"
            /\ a = 0 => t = "0.00"
            /\ b # 0 => 2 * Abs(Hundredths(t) * b - 10000 * a) <= b

\* two of three cores allocated have been printed as 66.67%
C6_Witness ==
    /\ pc = "print_return"
    /\ total_vm_vcpus + total_lxc_cores = 2
    /\ host_cpu_cores = 3
    /\ CpuAllocationText = "66.67"

----------------------------------------------------------------------------
(* Properties of extract_value (specification SpecExtract). *)

\* the start of the line matches the pattern, whatever the case of letters
StartMatches(line, pattern) ==
    LET word == Slice(pattern, 2, Len(pattern)) IN
    LowerStr(Slice(line, 1, Len(word))) = LowerStr(word)

HasSeparator(line) == \E k \in 1..Len(line) : Char(line, k) \in {"=", ":"}

\* the trimmed text after the first = or : of the line
AfterSeparator(line) ==
    LET k == CHOOSE k \in 1..Len(line) :
                 /\ Char(line, k) \in {"=", ":"}
                 /\ \A j \in 1..(k - 1) : Char(line, j) \notin {"=", ":"}
    IN  Strip(Slice(line, k + 1, Len(line)))

\* the first index of lines that satisfies P, 0 if none does
FirstIndex(lines, P(_)) ==
    IF \E k \in 1..Len(lines) : P(lines[k])
    THEN CHOOSE k \in 1..Len(lines) : P(lines[k]) /\ \A j \in 1..(k - 1) : ~P(lines[j])
    ELSE 0

\* C8: the first line whose start matches the pattern decides the result:
\* the trimmed text after its first = or :, and "" when no line matches or
\* when that line has neither = nor :, whatever the lines after it are.
C8_FirstMatchDecides ==
    pc = "returned" =>
        LET ls == call_args.lines
            M(l) == StartMatches(l, call_args.pattern)
            k == FirstIndex(ls, M)
        IN  ret = IF k # 0 /\ HasSeparator(ls[k]) THEN AfterSeparator(ls[k]) ELSE ""

\* C8 as amended: the first line that matches the pattern and has a = or :
\* decides the result; a matching line with neither is passed over, and the
\* result is "" when no matching line has a separator.
C8_FirstMatchWithSeparatorDecides ==
    pc = "returned" =>
        LET ls == call_args.lines
            M(l) == StartMatches(l, call_args.pattern) /\ HasSeparator(l)
            k == FirstIndex(ls, M)
        IN  ret = IF k # 0 THEN AfterSeparator(ls[k]) ELSE ""

\* extract_value has passed over a bare "name" line and returned the value
\* of the line after it
C8_Witness ==
    /\ pc = "returned"
    /\ call_args = [lines |-> <<"name", "name: web1">>, pattern |-> "^name"]
    /\ ret = "web1"

====
